---- MODULE Spec2Model ----
(***************************************************************************)
(* Metrics and segmentation engine of the Substack subscriber analytics    *)
(* dashboard (src/metrics.py, src/analytics.py, the list-cleaning view of  *)
(* src/app.py, the derived columns of src/data_loader.py).                 *)
(*                                                                         *)
(* A pandas DataFrame is a record [cols, rows]: the set of its column      *)
(* names and the sequence of its rows (records).  pd.DataFrame() is the    *)
(* frame with no columns and no rows.  Timestamps are integer day numbers, *)
(* NaT is the missing timestamp, NaN the missing number.  A float rate is  *)
(* the fraction [n, d]; d = 0 with n > 0 is the float infinity and 0/0 is  *)
(* the float NaN, as numpy division produces them.                         *)
(*                                                                         *)
(* files is the directory tree the upload handler (src/upload_handler.py)  *)
(* works on: a function from the absolute path of each directory to the    *)
(* files in it.  A path is the sequence of its components.  Only the       *)
(* upload specification changes it, and there the clock counts seconds.    *)
(***************************************************************************)
EXTENDS Integers, Sequences, FiniteSets, TLC

VARIABLES subscribers, posts, opens, delivers, details, now, result, files

vars == <<subscribers, posts, opens, delivers, details, now, result, files>>

----------------------------------------------------------------------------
(* Bounds of the model *)

MaxRows == 3            \* rows of the opens table of the attribution and trend inputs
MaxEventRows == 2       \* rows of the other opens and delivers tables
MaxSubs == 3            \* rows of the subscribers table
MaxRepeat == 2          \* how often a table's rows are repeated (duplicates)
ClockStart == 150       \* the wall clock when the dashboard starts
PaymentDay == 140       \* the day the paid subscribers convert
MaxTicks == 1           \* how far the wall clock advances

Emails == {1, 2}        \* emails of the event tables
PostIds == {0, 1}       \* the post key domain contains 0

NaT == -1               \* missing timestamp
NaN == -1               \* missing number
None == -1              \* absent optional argument

----------------------------------------------------------------------------
(* Floats that are quotients of two counts *)

Div(x, y) == [n |-> x, d |-> y]
Zero == [n |-> 0, d |-> 1]
IsNaN(r) == r.n = 0 /\ r.d = 0
IsInf(r) == r.n > 0 /\ r.d = 0
\* r >= a/b  and  r < a/b  for a finite threshold a/b (b > 0); NaN compares false
RateGE(r, a, b) == ~IsNaN(r) /\ (IsInf(r) \/ (r.d > 0 /\ r.n * b >= a * r.d))
RateLT(r, a, b) == ~IsNaN(r) /\ ~IsInf(r) /\ r.n * b < a * r.d
InUnitRange(r) == r.d > 0 /\ 0 <= r.n /\ r.n <= r.d

UnguardedRate(x, y) == Div(x, y)
\* x / y if y > 0 else 0
GuardedRate(x, y) == IF y > 0 THEN Div(x, y) ELSE Zero

----------------------------------------------------------------------------
(* Rate classifiers, src/metrics.py *)

rate_open_rate_strict(rate) ==
    IF RateGE(rate, 45, 100) /\ rate.n * 100 # 45 * rate.d THEN "Excellent"
    ELSE IF RateGE(rate, 30, 100) /\ rate.n * 100 # 30 * rate.d THEN "Good"
    ELSE IF RateGE(rate, 20, 100) /\ rate.n * 100 # 20 * rate.d THEN "Average"
    ELSE "Poor"

rate_open_rate(rate) ==
    IF RateGE(rate, 45, 100) THEN "Excellent"
    ELSE IF RateGE(rate, 30, 100) THEN "Good"
    ELSE IF RateGE(rate, 20, 100) THEN "Average"
    ELSE "Poor"

rate_ctr(rate) ==
    IF RateGE(rate, 5, 100) THEN "Excellent"
    ELSE IF RateGE(rate, 3, 100) THEN "Good"
    ELSE IF RateGE(rate, 2, 100) THEN "Average"
    ELSE "Poor"

rate_ctor(rate) ==
    IF RateGE(rate, 15, 100) THEN "Excellent"
    ELSE IF RateGE(rate, 10, 100) THEN "Good"
    ELSE "Below target"

rate_conversion(rate) ==
    IF RateGE(rate, 10, 100) THEN "Excellent (niche-level)"
    ELSE IF RateGE(rate, 5, 100) THEN "Very Good"
    ELSE IF RateGE(rate, 2, 100) THEN "Realistic/Good"
    ELSE "Below average"

rate_growth_strict(rate) ==
    IF RateGE(rate, 5, 100) THEN "Excellent"
    ELSE IF RateGE(rate, 2, 100) THEN "Good"
    ELSE IF RateGE(rate, 0, 1) /\ rate.n # 0 THEN "Slow"
    ELSE "Negative growth"

rate_growth(rate) ==
    IF RateGE(rate, 5, 100) THEN "Excellent"
    ELSE IF RateGE(rate, 2, 100) THEN "Good"
    ELSE IF RateGE(rate, 0, 1) THEN "Slow"
    ELSE "Negative growth"

rate_churn_inclusive(rate) ==
    IF ~RateGE(rate, 1, 100) \/ rate.n * 100 = rate.d THEN "Excellent"
    ELSE IF ~RateGE(rate, 3, 100) \/ rate.n * 100 = 3 * rate.d THEN "Good"
    ELSE IF ~RateGE(rate, 5, 100) \/ rate.n * 100 = 5 * rate.d THEN "Average"
    ELSE "Poor"

rate_churn(rate) ==
    IF RateLT(rate, 1, 100) THEN "Excellent"
    ELSE IF RateLT(rate, 3, 100) THEN "Good"
    ELSE IF RateLT(rate, 5, 100) THEN "Average"
    ELSE "Poor"

rate_unsubscribe(rate) ==
    IF RateLT(rate, 10, 10000) THEN "Excellent"
    ELSE IF RateLT(rate, 17, 10000) THEN "Good"
    ELSE IF RateLT(rate, 25, 10000) THEN "Acceptable"
    ELSE "Audit needed"

----------------------------------------------------------------------------
(* DataFrames *)

EmptyFrame == [cols |-> {}, rows |-> <<>>]
IsEmpty(df) == Len(df.rows) = 0 \/ df.cols = {}
HasCols(df, cs) == cs \subseteq df.cols
ColValues(rows, col) == {rows[i][col] : i \in 1..Len(rows)}
RowCount(rows, col) == Len(rows)
\* Series.nunique()
NUnique(rows, col) == Cardinality(ColValues(rows, col))
OfPost(rows, p) == SelectSeq(rows, LAMBDA r : r.post_id = p)

EventCols == {"email", "post_id", "timestamp"}
PostCols == {"post_id", "title", "post_date", "audience", "type"}

Raised(f, exc) == [fn |-> f, raised |-> exc]
Truthy(post_id) == post_id # None /\ post_id # 0

----------------------------------------------------------------------------
(* Headline metrics, src/metrics.py *)

calculate_open_rate(o, d, post_id) ==
    IF Truthy(post_id) /\ ~(HasCols(o, {"post_id"}) /\ HasCols(d, {"post_id"}))
    THEN Raised("calculate_open_rate", "KeyError")
    ELSE
    LET o2 == IF Truthy(post_id) THEN [o EXCEPT !.rows = OfPost(o.rows, post_id)] ELSE o
        d2 == IF Truthy(post_id) THEN [d EXCEPT !.rows = OfPost(d.rows, post_id)] ELSE d
        unique_opens == IF ~IsEmpty(o2) THEN NUnique(o2.rows, "email") ELSE 0
        total_delivered == IF ~IsEmpty(d2) THEN NUnique(d2.rows, "email") ELSE 0
        rate == GuardedRate(unique_opens, total_delivered)
    IN  [fn |-> "calculate_open_rate", raised |-> "none", post_id |-> post_id,
         value |-> rate, unique_opens |-> unique_opens,
         total_delivered |-> total_delivered, rating |-> rate_open_rate(rate)]

----------------------------------------------------------------------------
(* Timestamps: every comparison with NaT is false, arithmetic on NaT is NaT *)

TsLE(a, b) == a # NaT /\ b # NaT /\ a <= b
TsLTOrEqual(a, b) == a # NaT /\ b # NaT /\ a <= b
TsLT(a, b) == a # NaT /\ b # NaT /\ a < b
TsMinus(a, days) == IF a = NaT THEN NaT ELSE a - days
SetMax(S) == IF S = {} THEN NaT ELSE CHOOSE x \in S : \A y \in S : y <= x

SubCols == {"email", "created_at", "first_payment_at", "expiry", "plan", "active_subscription",
            "email_disabled", "is_paid", "is_active_paid"}

\* the derived columns of load_subscribers
load_subscribers(raw) ==
    [cols |-> SubCols,
     rows |-> [i \in 1..Len(raw) |->
                 [email |-> raw[i].email, created_at |-> raw[i].created_at,
                  first_payment_at |-> raw[i].first_payment_at, expiry |-> raw[i].expiry,
                  active_subscription |-> raw[i].active_subscription,
                  email_disabled |-> raw[i].email_disabled,
                  is_paid |-> raw[i].first_payment_at # NaT,
                  is_active_paid |-> raw[i].active_subscription = TRUE]]]

calculate_free_to_paid_conversion(subs) ==
    LET total_subscribers == Len(subs.rows)
        paid_subscribers == Len(SelectSeq(subs.rows, LAMBDA r : r.is_paid))
        active_paid == Len(SelectSeq(subs.rows, LAMBDA r : r.is_active_paid))
        rate == GuardedRate(paid_subscribers, total_subscribers)
    IN  [fn |-> "calculate_free_to_paid_conversion", raised |-> "none",
         value |-> rate, total_subscribers |-> total_subscribers,
         ever_paid |-> paid_subscribers, currently_active_paid |-> active_paid,
         rating |-> rate_conversion(rate)]

calculate_list_growth_rate(subs, months) ==
    LET max_created == SetMax(ColValues(subs.rows, "created_at") \ {NaT})
        period_start == TsMinus(max_created, months * 30)
        subscribers_at_start == Len(SelectSeq(subs.rows, LAMBDA r : TsLE(r.created_at, period_start)))
        new_during_period ==
            Len(SelectSeq(subs.rows, LAMBDA r : TsLT(period_start, r.created_at)
                                        /\ TsLE(r.created_at, max_created)))
        total_disabled == Len(SelectSeq(subs.rows, LAMBDA r : r.email_disabled))
        net_growth == new_during_period
        rate == GuardedRate(net_growth, subscribers_at_start)
    IN  [fn |-> "calculate_list_growth_rate", raised |-> "none", months |-> months,
         value |-> rate, subscribers_at_start |-> subscribers_at_start,
         new_subscribers |-> new_during_period, email_disabled_total |-> total_disabled,
         net_growth |-> net_growth, rating |-> rate_growth(rate)]

calculate_paid_churn_any_inactive(subs, clock) ==
    LET paid_ever == SelectSeq(subs.rows, LAMBDA r : r.is_paid = TRUE)
        churned == SelectSeq(paid_ever, LAMBDA r : r.active_subscription = FALSE)
        total_paid == Len(paid_ever)
        total_churned == Len(churned)
        churn_rate == GuardedRate(total_churned, total_paid)
    IN  [fn |-> "calculate_paid_churn", raised |-> "none",
         value |-> churn_rate, total_ever_paid |-> total_paid, churned |-> total_churned,
         retained |-> total_paid - total_churned, rating |-> rate_churn(churn_rate)]

calculate_paid_churn(subs, clock) ==
    LET paid_ever == SelectSeq(subs.rows, LAMBDA r : r.is_paid = TRUE)
        churned == SelectSeq(paid_ever, LAMBDA r : /\ r.active_subscription = FALSE
                                                   /\ r.expiry # NaT
                                                   /\ TsLT(r.expiry, clock))
        total_paid == Len(paid_ever)
        total_churned == Len(churned)
        churn_rate == GuardedRate(total_churned, total_paid)
    IN  [fn |-> "calculate_paid_churn", raised |-> "none",
         value |-> churn_rate, total_ever_paid |-> total_paid, churned |-> total_churned,
         retained |-> total_paid - total_churned, rating |-> rate_churn(churn_rate)]

\* one row of the per-post table
PostMetricsRow(post, o, d) ==
    LET post_opens == IF ~IsEmpty(o) THEN OfPost(o.rows, post.post_id) ELSE <<>>
        post_delivers == IF ~IsEmpty(d) THEN OfPost(d.rows, post.post_id) ELSE <<>>
        unique_opens == IF post_opens # <<>> THEN NUnique(post_opens, "email") ELSE 0
        total_delivered == IF post_delivers # <<>> THEN NUnique(post_delivers, "email") ELSE 0
        open_rate == GuardedRate(unique_opens, total_delivered)
    IN  [post_id |-> post.post_id, delivered |-> total_delivered,
         unique_opens |-> unique_opens, open_rate |-> open_rate,
         rating |-> rate_open_rate(open_rate)]

calculate_post_metrics(p, o, d) ==
    [fn |-> "calculate_post_metrics", raised |-> "none",
     table |-> [i \in 1..Len(p.rows) |-> PostMetricsRow(p.rows[i], o, d)]]

----------------------------------------------------------------------------
(* Inputs *)

EventRows(T) == [email : Emails, post_id : PostIds, timestamp : T]
RECURSIVE SeqsUpTo(_, _)
SeqsUpTo(S, k) ==
    IF k = 0 THEN {<<>>}
    ELSE LET shorter == SeqsUpTo(S, k - 1)
         IN  shorter \cup {Append(s, x) : s \in {t \in shorter : Len(t) = k - 1}, x \in S}
\* what load_engagement_data returns: pd.DataFrame() when there are no rows
EventFrame(rows) == IF rows = <<>> THEN EmptyFrame ELSE [cols |-> EventCols, rows |-> rows]
\* load_posts: the published posts, post_id unique; the title, date, audience and
\* type columns are carried through unchanged and are not represented in the rows
PostFrames ==
    {[cols |-> PostCols, rows |-> s] :
        s \in {<<>>, <<[post_id |-> 0]>>, <<[post_id |-> 1]>>,
               <<[post_id |-> 0], [post_id |-> 1]>>, <<[post_id |-> 1], [post_id |-> 0]>>}}

\* a free subscriber never paid and has no expiry; a paid one has a first payment
\* no earlier than its signup
RawSubscribers(e) ==
    [email : {e}, created_at : {100, 130, 131}, first_payment_at : {NaT}, expiry : {NaT},
     active_subscription : {FALSE}, email_disabled : BOOLEAN]
    \cup
    [email : {e}, created_at : {100}, first_payment_at : {PaymentDay},
     expiry : {NaT, ClockStart}, active_subscription : BOOLEAN, email_disabled : {FALSE}]
\* the email list: one row per email 1..k, every table size up to MaxSubs
RECURSIVE RawSubscriberLists(_)
RawSubscriberLists(k) ==
    IF k = 0 THEN {<<>>}
    ELSE LET shorter == RawSubscriberLists(k - 1)
         IN  shorter \cup {Append(s, r) : s \in {t \in shorter : Len(t) = k - 1},
                                          r \in RawSubscribers(k)}

NoResult == [fn |-> "none", raised |-> "none"]

\* the working directory holds DATA_DIR (.data, empty after ensure_data_dir) and a
\* directory of the user's next to it
WorkingDir == <<"/", "cwd">>
OtherDir == WorkingDir \o <<"other">>
InitialFiles ==
    [d \in {OtherDir} |-> {[name |-> <<"notes.txt">>, source |-> "user", upload_date |-> None]}]

InitEvents ==
    /\ opens \in {EventFrame(s) : s \in SeqsUpTo(EventRows({0}), MaxEventRows)}
    /\ delivers \in {EventFrame(s) : s \in SeqsUpTo(EventRows({0}), MaxEventRows)}
    /\ posts \in PostFrames
    /\ subscribers = load_subscribers(<<>>)

InitSubscribers ==
    /\ opens = EmptyFrame
    /\ delivers = EmptyFrame
    /\ posts \in {p \in PostFrames : p.rows = <<>>}
    /\ subscribers \in {load_subscribers(raw) : raw \in RawSubscriberLists(MaxSubs)}

InitMetrics ==
    /\ InitEvents \/ InitSubscribers
    /\ details = EmptyFrame
    /\ now = ClockStart
    /\ result = NoResult
    /\ files = InitialFiles

Tick ==
    /\ now < ClockStart + MaxTicks
    /\ now' = now + 1
    /\ UNCHANGED <<subscribers, posts, opens, delivers, details, result, files>>

CallOpenRate ==
    \E p \in PostIds \cup {None} :
        /\ result' = calculate_open_rate(opens, delivers, p)
        /\ UNCHANGED <<subscribers, posts, opens, delivers, details, now, files>>

CallPostMetrics ==
    /\ result' = calculate_post_metrics(posts, opens, delivers)
    /\ UNCHANGED <<subscribers, posts, opens, delivers, details, now, files>>

CallConversion ==
    /\ result' = calculate_free_to_paid_conversion(subscribers)
    /\ UNCHANGED <<subscribers, posts, opens, delivers, details, now, files>>

CallListGrowth ==
    \E months \in {1, 3} :
        /\ result' = calculate_list_growth_rate(subscribers, months)
        /\ UNCHANGED <<subscribers, posts, opens, delivers, details, now, files>>

CallPaidChurn ==
    /\ result' = calculate_paid_churn(subscribers, now)
    /\ UNCHANGED <<subscribers, posts, opens, delivers, details, now, files>>

NextMetrics ==
    \/ Tick
    \/ CallOpenRate
    \/ CallPostMetrics
    \/ CallConversion
    \/ CallListGrowth
    \/ CallPaidChurn

SpecMetrics == InitMetrics /\ [][NextMetrics]_vars

----------------------------------------------------------------------------
(* Post conversion attribution, src/analytics.py *)

conversion_window_days == 7

NaNRate == Div(0, 0)

RECURSIVE Flatten(_)
Flatten(ss) == IF ss = <<>> THEN <<>> ELSE Head(ss) \o Flatten(Tail(ss))

KeepAll(xs) == xs
\* the first occurrences, in order: Series.unique()
RECURSIVE Unique(_)
Unique(xs) ==
    IF xs = <<>> THEN <<>>
    ELSE LET front == Unique(SubSeq(xs, 1, Len(xs) - 1))
             last == xs[Len(xs)]
         IN  IF \E i \in 1..Len(front) : front[i] = last THEN front ELSE Append(front, last)

RECURSIVE SortedSeq(_)
SortedSeq(S) ==
    IF S = {} THEN <<>>
    ELSE LET m == CHOOSE x \in S : \A y \in S : x <= y
         IN  <<m>> \o SortedSeq(S \ {m})

WindowOpensStrict(sub, o) ==
    SelectSeq(o.rows, LAMBDA r : /\ r.email = sub.email
                                 /\ TsLT(TsMinus(sub.first_payment_at, conversion_window_days),
                                         r.timestamp)
                                 /\ TsLE(r.timestamp, sub.first_payment_at))

\* the rows of opens one paid subscriber's window selects
WindowOpens(sub, o) ==
    SelectSeq(o.rows, LAMBDA r : /\ r.email = sub.email
                                 /\ TsLE(TsMinus(sub.first_payment_at, conversion_window_days),
                                         r.timestamp)
                                 /\ TsLE(r.timestamp, sub.first_payment_at))

\* the attribution rows one paid subscriber appends
SubscriberAttribution(sub, o) ==
    IF sub.first_payment_at = NaT THEN <<>>
    ELSE LET subscriber_opens == WindowOpens(sub, o)
             post_ids == Unique([i \in 1..Len(subscriber_opens) |-> subscriber_opens[i].post_id])
         IN  [i \in 1..Len(post_ids) |->
                 [email |-> sub.email, post_id |-> post_ids[i],
                  conversion_date |-> sub.first_payment_at]]

ConversionAttribution(subs, o) ==
    LET paid_subs == SelectSeq(subs.rows, LAMBDA r : r.is_paid = TRUE)
    IN  Flatten([i \in 1..Len(paid_subs) |-> SubscriberAttribution(paid_subs[i], o)])

\* groupby('post_id').agg(conversions=('email', 'nunique')), keys ascending
GroupConversions(attribution) ==
    LET keys == SortedSeq(ColValues(attribution, "post_id"))
    IN  [i \in 1..Len(keys) |->
            [post_id |-> keys[i],
             conversions |-> NUnique(OfPost(attribution, keys[i]), "email")]]

\* the left merge with the delivered counts and the rate in percent (its rounding
\* to two decimals keeps 0, 100 and the order, and is left out)
WithDelivered(row, d) ==
    LET post_delivers == OfPost(d.rows, row.post_id)
    IN  IF post_delivers = <<>>
        THEN [post_id |-> row.post_id, conversions |-> row.conversions,
              delivered |-> NaN, conversion_rate |-> NaNRate]
        ELSE [post_id |-> row.post_id, conversions |-> row.conversions,
              delivered |-> NUnique(post_delivers, "email"),
              conversion_rate |-> Div(row.conversions * 100, NUnique(post_delivers, "email"))]

IsPermutation(t, u) ==
    /\ Len(t) = Len(u)
    /\ \E f \in [1..Len(t) -> 1..Len(t)] :
          /\ \A i, j \in 1..Len(t) : i # j => f[i] # f[j]
          /\ \A i \in 1..Len(t) : t[i] = u[f[i]]

\* sort_values('conversions', ascending=False): the default sort is not stable, rows
\* with equal conversions come in any order
SortOutcomes(table) ==
    {t \in [1..Len(table) -> {table[i] : i \in 1..Len(table)}] :
        /\ IsPermutation(t, table)
        /\ \A i, j \in 1..Len(t) : i < j => t[i].conversions >= t[j].conversions}

\* the set of results the call can return
analyze_post_conversions(subs, p, o, d) ==
    LET paid_subs == SelectSeq(subs.rows, LAMBDA r : r.is_paid = TRUE)
        attribution == ConversionAttribution(subs, o)
    IN  IF paid_subs = <<>> \/ IsEmpty(o)
        THEN {[fn |-> "analyze_post_conversions", raised |-> "none",
               conversion_posts |-> <<>>, summary |-> "No paid subscribers or engagement data available"]}
        ELSE IF attribution = <<>>
        THEN {[fn |-> "analyze_post_conversions", raised |-> "none",
               conversion_posts |-> <<>>, summary |-> "No posts found in conversion windows"]}
        ELSE IF ~HasCols(d, {"post_id"})
        THEN {Raised("analyze_post_conversions", "KeyError")}
        ELSE LET grouped == GroupConversions(attribution)
                 merged == [i \in 1..Len(grouped) |-> WithDelivered(grouped[i], d)]
             IN  {[fn |-> "analyze_post_conversions", raised |-> "none",
                   conversion_posts |-> t, summary |-> "Analyzed",
                   total_conversions_tracked |-> Len(paid_subs),
                   posts_with_attribution |-> Len(t)] : t \in SortOutcomes(merged)}

\* the times of the opens around the conversion instant
AttributionTimes == {PaymentDay - conversion_window_days - 1,
                     PaymentDay - conversion_window_days, PaymentDay, PaymentDay + 1}

\* subscribers 1 and 2 of the event tables, each free or converting on PaymentDay
AttributionSubscribers ==
    {load_subscribers(raw) :
        raw \in {r \in RawSubscriberLists(2) :
                    /\ Len(r) = 2
                    /\ \A i \in 1..2 : /\ r[i].created_at = 100
                                       /\ r[i].email_disabled = FALSE
                                       /\ r[i].expiry = NaT
                                       /\ r[i].active_subscription = (r[i].first_payment_at # NaT)}}

InitAttribution ==
    /\ opens \in {EventFrame(s) : s \in SeqsUpTo(EventRows(AttributionTimes), MaxRows)}
    /\ delivers \in {EmptyFrame,
                     EventFrame(<<[email |-> 1, post_id |-> 0, timestamp |-> PaymentDay]>>),
                     EventFrame(<<[email |-> 1, post_id |-> 0, timestamp |-> PaymentDay],
                                  [email |-> 2, post_id |-> 0, timestamp |-> PaymentDay],
                                  [email |-> 1, post_id |-> 1, timestamp |-> PaymentDay],
                                  [email |-> 2, post_id |-> 1, timestamp |-> PaymentDay]>>)}
    /\ posts \in {p \in PostFrames : Len(p.rows) = 2 /\ p.rows[1].post_id = 0}
    /\ subscribers \in AttributionSubscribers
    /\ details = EmptyFrame
    /\ now = ClockStart
    /\ result = NoResult
    /\ files = InitialFiles

CallPostConversions ==
    /\ result' \in analyze_post_conversions(subscribers, posts, opens, delivers)
    /\ UNCHANGED <<subscribers, posts, opens, delivers, details, now, files>>

NextAttribution == CallPostConversions

SpecAttribution == InitAttribution /\ [][NextAttribution]_vars

----------------------------------------------------------------------------
(* Engagement tiers, src/analytics.py *)

MaxSegPosts == 6        \* posts delivered to or opened by one email

\* groupby('email')['post_id'].nunique() of both tables, outer merge, fillna(0)
SubEngagement(o, d) ==
    LET emails == SortedSeq(ColValues(o.rows, "email") \cup ColValues(d.rows, "email"))
        OfEmail(rows, e) == SelectSeq(rows, LAMBDA r : r.email = e)
    IN  [i \in 1..Len(emails) |->
            LET posts_opened == NUnique(OfEmail(o.rows, emails[i]), "post_id")
                posts_delivered == NUnique(OfEmail(d.rows, emails[i]), "post_id")
            IN  [email |-> emails[i], posts_opened |-> posts_opened,
                 posts_delivered |-> posts_delivered,
                 open_rate |-> IF IsNaN(Div(posts_opened, posts_delivered)) THEN Zero
                               ELSE Div(posts_opened, posts_delivered)]]

\* merge(subscribers[['email', 'is_paid', 'created_at']], on='email', how='left'):
\* one row per matching subscribers row, one row with missing values when none matches
LeftMergeSubscribers(left, subs) ==
    Flatten([i \in 1..Len(left) |->
        LET matches == SelectSeq(subs.rows, LAMBDA r : r.email = left[i].email)
        IN  IF matches = <<>>
            THEN <<[email |-> left[i].email, open_rate |-> left[i].open_rate,
                    is_paid |-> FALSE, matched |-> FALSE]>>
            ELSE [j \in 1..Len(matches) |->
                    [email |-> left[i].email, open_rate |-> left[i].open_rate,
                     is_paid |-> matches[j].is_paid, matched |-> TRUE]]])

identify_super_engagers(o, d, subs) ==
    IF IsEmpty(o) \/ IsEmpty(d)
    THEN [fn |-> "identify_super_engagers", raised |-> "none",
          super_engagers |-> <<>>, summary |-> "No engagement data available"]
    ELSE
    LET sub_engagement == SubEngagement(o, d)
        engaged == SelectSeq(sub_engagement, LAMBDA r : r.posts_delivered >= 5)
        super_engagers == SelectSeq(engaged, LAMBDA r : RateGE(r.open_rate, 8, 10))
        at_risk == SelectSeq(engaged, LAMBDA r : RateLT(r.open_rate, 2, 10))
        merged == LeftMergeSubscribers(super_engagers, subs)
    IN  [fn |-> "identify_super_engagers", raised |-> "none",
         super_engagers |-> merged, super_engager_count |-> Len(merged),
         at_risk_count |-> Len(at_risk), total_analyzed |-> Len(engaged),
         summary |-> "super engagers"]

\* render_segments: the derived size of the average tier
AverageCount(se) == se.total_analyzed - se.super_engager_count - se.at_risk_count

\* one email's events: posts 1..nd delivered, posts 1..no opened
EventsOf(e, n) == [i \in 1..n |-> [email |-> e, post_id |-> i, timestamp |-> 0]]

\* the email list of a segment input: email 1 absent, present once, or present twice
\* (the loader reads the rows of the file as they are), email 2 present once
SegmentSubscribers ==
    LET row(e) == [email |-> e, created_at |-> 100, first_payment_at |-> NaT, expiry |-> NaT,
                   active_subscription |-> FALSE, email_disabled |-> FALSE]
    IN  {load_subscribers(raw) : raw \in {<<row(2)>>, <<row(1), row(2)>>,
                                          <<row(1), row(1), row(2)>>}}

InitSegments ==
    /\ \E no1, nd1, no2, nd2 \in 0..MaxSegPosts :
          /\ opens = EventFrame(EventsOf(1, no1) \o EventsOf(2, no2))
          /\ delivers = EventFrame(EventsOf(1, nd1) \o EventsOf(2, nd2))
    /\ subscribers \in SegmentSubscribers
    /\ posts \in {p \in PostFrames : p.rows = <<>>}
    /\ details = EmptyFrame
    /\ now = ClockStart
    /\ result = NoResult
    /\ files = InitialFiles

CallSuperEngagers ==
    /\ result' = identify_super_engagers(opens, delivers, subscribers)
    /\ UNCHANGED <<subscribers, posts, opens, delivers, details, now, files>>

NextSegments == CallSuperEngagers

SpecSegments == InitSegments /\ [][NextSegments]_vars

----------------------------------------------------------------------------
(* List cleaning, src/app.py render_inactive_subscribers, and the derived    *)
(* columns of src/data_loader.py load_subscriber_details                      *)

MIN_EMAILS == 8
MaxDetails == 2         \* rows of the subscriber details table

DetailCols == {"email", "emails_received_6mo", "total_emails_opened", "emails_opened_6mo",
               "last_email_open", "start_date", "links_clicked", "comments", "shares",
               "post_views", "subscriber_type", "is_paid", "open_rate_6mo"}

\* NaN > x, NaN <= x and NaN == x are all false
NumGT(a, b) == a # NaN /\ a > b
NumLE(a, b) == a # NaN /\ a <= b
NumEQ(a, b) == a # NaN /\ a = b
DaysBetween(clock, ts) == IF ts = NaT THEN NaN ELSE clock - ts

\* (emails_opened_6mo / emails_received_6mo).fillna(0)
OpenRate6mo(r) ==
    IF r.emails_received_6mo = NaN \/ r.emails_opened_6mo = NaN THEN Zero
    ELSE IF IsNaN(Div(r.emails_opened_6mo, r.emails_received_6mo)) THEN Zero
    ELSE Div(r.emails_opened_6mo, r.emails_received_6mo)

load_subscriber_details(raw) ==
    IF raw = <<>> THEN EmptyFrame
    ELSE [cols |-> DetailCols,
          rows |-> [i \in 1..Len(raw) |->
                      [email |-> raw[i].email,
                       emails_received_6mo |-> raw[i].emails_received_6mo,
                       total_emails_opened |-> raw[i].total_emails_opened,
                       emails_opened_6mo |-> raw[i].emails_opened_6mo,
                       last_email_open |-> raw[i].last_email_open,
                       start_date |-> raw[i].start_date,
                       links_clicked |-> raw[i].links_clicked,
                       comments |-> raw[i].comments,
                       shares |-> raw[i].shares,
                       post_views |-> raw[i].post_views,
                       subscriber_type |-> raw[i].subscriber_type,
                       is_paid |-> raw[i].subscriber_type \in {"Subscriber"},
                       open_rate_6mo |-> OpenRate6mo(raw[i])]]]

\* the per-row columns the view adds
DaysSinceLastOpen(r, clock) == DaysBetween(clock, r.last_email_open)
IsNewSubscriber(r, clock) == NumLE(DaysBetween(clock, r.start_date), 30)
SufficientEmailsInclusive(r) == r.emails_received_6mo # NaN /\ r.emails_received_6mo >= MIN_EMAILS
SufficientEmails(r) == NumGT(r.emails_received_6mo, MIN_EMAILS)

NeverOpenedAnyOpens(r, clock) ==
    /\ SufficientEmails(r)
    /\ ~IsNewSubscriber(r, clock)

NeverOpened(r, clock) ==
    /\ SufficientEmails(r)
    /\ NumEQ(r.total_emails_opened, 0)
    /\ ~IsNewSubscriber(r, clock)

InactiveIgnoringShares(r, clock) ==
    /\ SufficientEmails(r)
    /\ NumGT(r.total_emails_opened, 0)
    /\ NumGT(DaysSinceLastOpen(r, clock), 30)
    /\ NumEQ(r.links_clicked, 0)
    /\ NumEQ(r.comments, 0)
    /\ ~IsNewSubscriber(r, clock)
    /\ ~r.is_paid

InactiveAnyOpens(r, clock) ==
    /\ SufficientEmails(r)
    /\ NumGT(DaysSinceLastOpen(r, clock), 30)
    /\ NumEQ(r.links_clicked, 0)
    /\ NumEQ(r.shares, 0)
    /\ NumEQ(r.comments, 0)
    /\ ~IsNewSubscriber(r, clock)
    /\ ~r.is_paid

Inactive(r, clock) ==
    /\ SufficientEmails(r)
    /\ NumGT(r.total_emails_opened, 0)
    /\ NumGT(DaysSinceLastOpen(r, clock), 30)
    /\ NumEQ(r.links_clicked, 0)
    /\ NumEQ(r.shares, 0)
    /\ NumEQ(r.comments, 0)
    /\ ~IsNewSubscriber(r, clock)
    /\ ~r.is_paid

ReengagementFrom30Days(r, clock) ==
    /\ SufficientEmails(r)
    /\ NumGT(r.total_emails_opened, 0)
    /\ RateGE(r.open_rate_6mo, 3, 10)
    /\ NumGT(DaysSinceLastOpen(r, clock), 29)
    /\ ~IsNewSubscriber(r, clock)
    /\ ~r.is_paid

ReengagementCandidate(r, clock) ==
    /\ SufficientEmails(r)
    /\ NumGT(r.total_emails_opened, 0)
    /\ RateGE(r.open_rate_6mo, 3, 10)
    /\ NumGT(DaysSinceLastOpen(r, clock), 30)
    /\ ~IsNewSubscriber(r, clock)
    /\ ~r.is_paid

OtherEngagementNoViews(r) ==
    \/ NumGT(r.links_clicked, 0)
    \/ NumGT(r.comments, 0)
    \/ NumGT(r.shares, 0)

OtherEngagement(r) ==
    \/ NumGT(r.links_clicked, 0)
    \/ NumGT(r.comments, 0)
    \/ NumGT(r.shares, 0)
    \/ NumGT(r.post_views, 0)

\* the details rows with the added columns
Categorized(rows, clock) ==
    [i \in 1..Len(rows) |->
        [email |-> rows[i].email, is_paid |-> rows[i].is_paid,
         emails_received_6mo |-> rows[i].emails_received_6mo,
         days_since_last_open |-> DaysSinceLastOpen(rows[i], clock),
         is_new_subscriber |-> IsNewSubscriber(rows[i], clock),
         sufficient_emails |-> SufficientEmails(rows[i]),
         other_engagement |-> OtherEngagement(rows[i]),
         never_opened |-> NeverOpened(rows[i], clock),
         inactive |-> Inactive(rows[i], clock),
         reengagement_candidate |-> ReengagementCandidate(rows[i], clock)]]

RemovalChoices == {"Inactive (lapsed)", "Never opened (no other engagement)", "Both groups"}

ToRemove(eligible_free, removal_threshold) ==
    LET never_opened_no_engagement ==
            SelectSeq(eligible_free, LAMBDA r : r.never_opened /\ ~r.other_engagement)
        inactive_lapsed == SelectSeq(eligible_free, LAMBDA r : r.inactive)
    IN  IF removal_threshold = "Inactive (lapsed)" THEN inactive_lapsed
        ELSE IF removal_threshold = "Never opened (no other engagement)"
        THEN never_opened_no_engagement
        ELSE Unique(never_opened_no_engagement \o inactive_lapsed)

render_inactive_subscribers(subscriber_details, clock, removal_threshold) ==
    IF IsEmpty(subscriber_details)
    THEN [fn |-> "render_inactive_subscribers", raised |-> "none",
          shown |-> "No subscriber_details.csv found"]
    ELSE
    LET excluded_tracking ==
            Len(SelectSeq(subscriber_details.rows,
                  LAMBDA r : r.emails_received_6mo = NaN \/ r.emails_received_6mo = 0))
        kept == SelectSeq(subscriber_details.rows, LAMBDA r : NumGT(r.emails_received_6mo, 0))
        rows == Categorized(kept, clock)
        never_opened_count == Len(SelectSeq(rows, LAMBDA r : r.never_opened))
        inactive_count == Len(SelectSeq(rows, LAMBDA r : r.inactive))
        reengagement_count == Len(SelectSeq(rows, LAMBDA r : r.reengagement_candidate))
        total == Len(rows)
        eligible == Len(SelectSeq(rows, LAMBDA r : r.sufficient_emails))
        active_count == Len(SelectSeq(rows, LAMBDA r : /\ r.sufficient_emails
                                               /\ NumLE(r.days_since_last_open, 30)
                                               /\ ~r.is_new_subscriber))
        never_opened_df == SelectSeq(rows, LAMBDA r : r.never_opened /\ ~r.is_paid)
        has_other == Len(SelectSeq(never_opened_df, LAMBDA r : r.other_engagement))
        never_opened_clean == SelectSeq(never_opened_df, LAMBDA r : ~r.other_engagement)
        inactive_df == SelectSeq(rows, LAMBDA r : r.inactive)
        reengagement_df == SelectSeq(rows, LAMBDA r : r.reengagement_candidate)
        eligible_free == SelectSeq(rows, LAMBDA r : /\ r.sufficient_emails
                                                    /\ ~r.is_paid
                                                    /\ ~r.is_new_subscriber)
        to_remove == ToRemove(eligible_free, removal_threshold)
        remaining == Len(rows) - Len(to_remove)
        active_remaining == Len(SelectSeq(rows, LAMBDA r : NumLE(r.days_since_last_open, 30)))
    IN  IF Len(rows) = 0
        THEN Raised("render_inactive_subscribers", "ZeroDivisionError")
        ELSE [fn |-> "render_inactive_subscribers", raised |-> "none", shown |-> "analysis",
              removal_threshold |-> removal_threshold,
              details |-> rows, excluded_tracking |-> excluded_tracking,
              never_opened_count |-> never_opened_count,
              inactive_count |-> inactive_count,
              reengagement_count |-> reengagement_count,
              total |-> total, eligible |-> eligible, active_count |-> active_count,
              never_opened_pct |-> Div(never_opened_count * 100, eligible),
              inactive_pct |-> Div(inactive_count * 100, eligible),
              reengagement_pct |-> Div(reengagement_count * 100, eligible),
              active_pct |-> Div(active_count * 100, eligible),
              has_other |-> has_other,
              never_opened_clean |-> never_opened_clean,
              inactive_df |-> inactive_df,
              reengagement_df |-> reengagement_df,
              to_remove |-> to_remove,
              removed_pct |-> Div(Len(to_remove) * 100, Len(rows)),
              remaining |-> remaining,
              active_remaining |-> active_remaining,
              new_active_rate |-> IF remaining > 0 THEN Div(active_remaining * 100, remaining)
                                  ELSE Zero,
              current_active_rate |-> Div(active_remaining * 100, Len(rows))]

\* one exported details row of email e: every combination of the fields the view reads
RawDetails(e) ==
    [email : {e},
     emails_received_6mo : {NaN, 0, MIN_EMAILS, MIN_EMAILS + 1, MIN_EMAILS + 2},
     total_emails_opened : {0, 5},
     emails_opened_6mo : {0, 2, 3},
     last_email_open : {NaT, ClockStart - 30, ClockStart - 31},
     start_date : {NaT, ClockStart - 30, ClockStart - 31},
     links_clicked : {0, 1}, comments : {0, 1}, shares : {0, 1}, post_views : {0, 1},
     subscriber_type : {"Free", "Subscriber"}]

\* the rows after the first come from a few typical subscribers
TypicalDetails(e) ==
    {r \in RawDetails(e) :
        /\ r.emails_received_6mo = MIN_EMAILS + 2
        /\ r.start_date = ClockStart - 31
        /\ r.links_clicked = 0 /\ r.comments = 0 /\ r.shares = 0 /\ r.post_views = 0
        /\ r.subscriber_type = "Free"
        /\ \/ r.total_emails_opened = 0 /\ r.emails_opened_6mo = 0 /\ r.last_email_open = NaT
           \/ /\ r.total_emails_opened = 5 /\ r.emails_opened_6mo = 3
              /\ r.last_email_open # NaT}

RECURSIVE RawDetailLists(_)
RawDetailLists(k) ==
    IF k = 0 THEN {<<>>}
    ELSE IF k = 1 THEN {<<>>} \cup {<<r>> : r \in {x \in RawDetails(1) :
                                        x.emails_opened_6mo <= x.total_emails_opened}}
    ELSE LET shorter == RawDetailLists(k - 1)
         IN  shorter \cup {Append(s, r) : s \in {t \in shorter : Len(t) = k - 1},
                                          r \in TypicalDetails(k)}

InitCleaning ==
    /\ details \in {load_subscriber_details(raw) : raw \in RawDetailLists(MaxDetails)}
    /\ opens = EmptyFrame
    /\ delivers = EmptyFrame
    /\ posts \in {p \in PostFrames : p.rows = <<>>}
    /\ subscribers = load_subscribers(<<>>)
    /\ now = ClockStart
    /\ result = NoResult
    /\ files = InitialFiles

RenderInactive ==
    \E choice \in RemovalChoices :
        /\ result' = render_inactive_subscribers(details, now, choice)
        /\ UNCHANGED <<subscribers, posts, opens, delivers, details, now, files>>

NextCleaning == Tick \/ RenderInactive

SpecCleaning == InitCleaning /\ [][NextCleaning]_vars

----------------------------------------------------------------------------
(* Engagement trends, src/analytics.py *)

\* dt.to_period('M'): the calendar month of a day number, months taken as 30 days
MonthOf(ts) == ts \div 30

WithColumn(df, col) == [df EXCEPT !.cols = df.cols \cup {col}]

MonthlyEngagement(o, d) ==
    LET InMonth(rows, m) == SelectSeq(rows, LAMBDA r : MonthOf(r.timestamp) = m)
        OpenMonths == {MonthOf(o.rows[i].timestamp) : i \in 1..Len(o.rows)}
        DeliverMonths == {MonthOf(d.rows[i].timestamp) : i \in 1..Len(d.rows)}
        months == SortedSeq(OpenMonths \cup DeliverMonths)
    IN  [i \in 1..Len(months) |->
            LET monthly_opens == NUnique(InMonth(o.rows, months[i]), "email")
                monthly_delivers == NUnique(InMonth(d.rows, months[i]), "email")
            IN  [month |-> months[i], opens |-> monthly_opens, delivers |-> monthly_delivers,
                 open_rate |-> IF IsNaN(Div(monthly_opens, monthly_delivers)) THEN Zero
                               ELSE Div(monthly_opens, monthly_delivers)]]

RECURSIVE CumSum(_)
CumSum(xs) ==
    IF xs = <<>> THEN <<>>
    ELSE LET front == CumSum(SubSeq(xs, 1, Len(xs) - 1))
         IN  Append(front, xs[Len(xs)] + (IF front = <<>> THEN 0 ELSE front[Len(front)]))

CumulativeSubscribers(subs) ==
    LET months == SortedSeq({MonthOf(subs.rows[i].created_at) : i \in 1..Len(subs.rows)})
        sizes == [i \in 1..Len(months) |->
                    Len(SelectSeq(subs.rows, LAMBDA r : MonthOf(r.created_at) = months[i]))]
    IN  CumSum(sizes)

analyze_engagement_trends(subs, o, d, p, clock) ==
    IF IsEmpty(o) \/ IsEmpty(d)
    THEN [fn |-> "analyze_engagement_trends", raised |-> "none",
          monthly_engagement |-> <<>>, summary |-> "No engagement data available"]
    ELSE
    LET last_30_days == clock - 30
        recent_openers ==
            NUnique(SelectSeq(o.rows, LAMBDA r : TsLE(last_30_days, r.timestamp)), "email")
        total_subs == Len(subs.rows)
        active_ratio == GuardedRate(recent_openers, total_subs)
    IN  [fn |-> "analyze_engagement_trends", raised |-> "none",
         monthly_engagement |-> MonthlyEngagement(o, d),
         cumulative_subscribers |-> CumulativeSubscribers(subs),
         active_ratio_30d |-> active_ratio, recent_openers |-> recent_openers,
         total_subscribers |-> total_subs, summary |-> "opened an email in the last 30 days"]

----------------------------------------------------------------------------
(* Engagement by post, src/analytics.py *)

MinDelivered == 50
MaxEngPosts == 3

\* comparisons and the mean of finite quotients (denominators > 0), taken exactly
FracLT(a, b) == a.n * b.d < b.n * a.d
RECURSIVE GCD(_, _)
GCD(a, b) == IF b = 0 THEN a ELSE GCD(b, a % b)
\* a quotient in lowest terms, the value unchanged
Reduced(r) == [n |-> r.n \div GCD(r.n, r.d), d |-> r.d \div GCD(r.n, r.d)]
FracAdd(a, b) == Reduced([n |-> a.n * b.d + b.n * a.d, d |-> a.d * b.d])
RECURSIVE FracSum(_)
FracSum(rs) == IF rs = <<>> THEN Zero ELSE FracAdd(rs[1], FracSum(Tail(rs)))
Mean(rs) == [n |-> FracSum(rs).n, d |-> FracSum(rs).d * Len(rs)]
\* avg_open_rate * 0.7
Scale70(r) == [n |-> 7 * r.n, d |-> 10 * r.d]

\* one row of the per-post table; the title, date, audience and type are carried
\* through, and the engagement score (open_rate * log1p(delivered)) and the
\* formatted percentage are derived from the fields kept here
EngagementRow(post, o, d) ==
    LET post_opens == IF ~IsEmpty(o) THEN OfPost(o.rows, post.post_id) ELSE <<>>
        post_delivers == IF ~IsEmpty(d) THEN OfPost(d.rows, post.post_id) ELSE <<>>
        unique_opens == IF post_opens # <<>> THEN NUnique(post_opens, "email") ELSE 0
        total_delivered == IF post_delivers # <<>> THEN NUnique(post_delivers, "email") ELSE 0
    IN  [post_id |-> post.post_id, delivered |-> total_delivered,
         unique_opens |-> unique_opens,
         open_rate |-> GuardedRate(unique_opens, total_delivered)]

\* sort_values('open_rate', ascending=False): the default sort is not stable, rows
\* with equal open rates come in any order
SortByOpenRate(table) ==
    LET n == Len(table)
        perms == {f \in [1..n -> 1..n] : \A i, j \in 1..n : i # j => f[i] # f[j]}
    IN  {[i \in 1..n |-> table[f[i]]] :
            f \in {g \in perms : \A i, j \in 1..n :
                        i < j => ~FracLT(table[g[i]].open_rate, table[g[j]].open_rate)}}

SignificantFrom49(r) == r.delivered >= MinDelivered - 1
Significant(r) == r.delivered >= MinDelivered

\* the summary of one sorted per-post table
EngagementSummary(engagement_df) ==
    LET significant_posts == SelectSeq(engagement_df, Significant)
        rates == [i \in 1..Len(significant_posts) |-> significant_posts[i].open_rate]
        avg_open_rate == IF Len(significant_posts) > 0 THEN Mean(rates) ELSE Zero
    IN  [fn |-> "analyze_engagement_by_post", raised |-> "none",
         all_posts |-> engagement_df,
         significant_posts |-> significant_posts,
         avg_open_rate |-> avg_open_rate,
         top_performers |->
            IF Len(significant_posts) > 0
            THEN SelectSeq(significant_posts, LAMBDA r : FracLT(avg_open_rate, r.open_rate))
            ELSE <<>>,
         low_performers |->
            IF Len(significant_posts) > 0
            THEN SelectSeq(significant_posts,
                           LAMBDA r : FracLT(r.open_rate, Scale70(avg_open_rate)))
            ELSE <<>>,
         summary |-> "Average open rate"]

\* the set of results the call can return; a posts table without rows gives a
\* per-post frame without columns, and sorting it by open_rate raises KeyError
analyze_engagement_by_post(p, o, d) ==
    IF p.rows = <<>>
    THEN {Raised("analyze_engagement_by_post", "KeyError")}
    ELSE IF ~HasCols(p, PostCols)
    THEN {Raised("analyze_engagement_by_post", "KeyError")}
    ELSE {EngagementSummary(t) :
            t \in SortByOpenRate([i \in 1..Len(p.rows) |-> EngagementRow(p.rows[i], o, d)])}

\* the events of post p for the subscribers 1..k
EventsOfPost(p, k) == [i \in 1..k |-> [email |-> i, post_id |-> p, timestamp |-> 0]]
\* the events of posts 1..n, post p having counts[p] of them
RECURSIVE EventsOfPosts(_, _)
EventsOfPosts(n, counts) ==
    IF n = 0 THEN <<>> ELSE EventsOfPosts(n - 1, counts) \o EventsOfPost(n, counts[n])

\* posts 1..n, each delivered to none, to one subscriber less than the benchmark
\* minimum or to the minimum, and opened by none, half the minimum or the minimum
InitEngagement ==
    /\ \E n \in 0..MaxEngPosts :
        /\ posts = [cols |-> PostCols, rows |-> [i \in 1..n |-> [post_id |-> i]]]
        /\ \E delivered \in [1..n -> {0, MinDelivered - 1, MinDelivered}],
              opened \in [1..n -> {0, MinDelivered \div 2, MinDelivered}] :
                /\ delivers = EventFrame(EventsOfPosts(n, delivered))
                /\ opens = EventFrame(EventsOfPosts(n, opened))
    /\ subscribers = load_subscribers(<<>>)
    /\ details = EmptyFrame
    /\ now = ClockStart
    /\ result = NoResult
    /\ files = InitialFiles

CallEngagementByPost ==
    /\ result' \in analyze_engagement_by_post(posts, opens, delivers)
    /\ UNCHANGED <<subscribers, posts, opens, delivers, details, now, files>>

NextEngagement == CallEngagementByPost

SpecEngagement == InitEngagement /\ [][NextEngagement]_vars

----------------------------------------------------------------------------
(* Subscriber acquisition, src/analytics.py *)

\* dt.day_name(): the weekday of a day number, as an index 0..6
DayOfWeek(ts) == ts % 7

\* groupby(col).size() over the values of the key column: one entry per key in
\* ascending key order
GroupSizes(ks) ==
    LET keys == SortedSeq({ks[i] : i \in 1..Len(ks)})
    IN  [i \in 1..Len(keys) |->
            [key |-> keys[i], size |-> Len(SelectSeq(ks, LAMBDA k : k = keys[i]))]]

RECURSIVE SumSeq(_)
SumSeq(xs) == IF xs = <<>> THEN 0 ELSE xs[1] + SumSeq(Tail(xs))

RECURSIVE SortValues(_)
SortValues(xs) ==
    IF xs = <<>> THEN <<>>
    ELSE LET least == CHOOSE i \in 1..Len(xs) : \A j \in 1..Len(xs) : xs[i] <= xs[j]
             rest == [j \in 1..(Len(xs) - 1) |-> IF j < least THEN xs[j] ELSE xs[j + 1]]
         IN  <<xs[least]>> \o SortValues(rest)

\* round(x, 1) of the non-negative number n/d, in tenths, halves to the even tenth
RoundTenths(n, d) ==
    LET q == (10 * n) \div d
        twice == 2 * ((10 * n) % d)
    IN  IF twice > d \/ (twice = d /\ q % 2 = 1) THEN q + 1 ELSE q

\* Series.median() of a non-empty list, as a fraction over 2
MedianTwice(xs) ==
    LET sorted == SortValues(xs)
        n == Len(xs)
    IN  IF n % 2 = 1 THEN 2 * sorted[(n + 1) \div 2]
        ELSE sorted[n \div 2] + sorted[n \div 2 + 1]

\* the plan distribution is a count over a column whose values are carried through
\* unchanged and are not represented in the rows
analyze_subscriber_acquisition(subs) ==
    IF ~HasCols(subs, {"plan"})
    THEN Raised("analyze_subscriber_acquisition", "KeyError")
    ELSE
    LET converted == SelectSeq(subs.rows, LAMBDA r : r.is_paid)
        days_to_convert == [i \in 1..Len(converted) |->
                                converted[i].first_payment_at - converted[i].created_at]
    IN  [fn |-> "analyze_subscriber_acquisition", raised |-> "none",
         monthly_signups |-> GroupSizes([i \in 1..Len(subs.rows) |-> MonthOf(subs.rows[i].created_at)]),
         monthly_paid_signups |-> GroupSizes([i \in 1..Len(converted) |-> MonthOf(converted[i].created_at)]),
         dow_distribution |-> GroupSizes([i \in 1..Len(subs.rows) |-> DayOfWeek(subs.rows[i].created_at)]),
         avg_days_to_convert |->
            IF converted # <<>> THEN RoundTenths(SumSeq(days_to_convert), Len(converted))
            ELSE 0,
         median_days_to_convert |->
            IF converted # <<>> THEN RoundTenths(MedianTwice(days_to_convert), 2) ELSE 0,
         summary |-> "Avg time to convert"]

----------------------------------------------------------------------------
(* Trend and acquisition inputs and calls *)

TrendSubscribers ==
    {load_subscribers(raw) :
        raw \in {r \in RawSubscriberLists(2) :
                    \A i \in 1..Len(r) : /\ r[i].email_disabled = FALSE
                                         /\ r[i].created_at # 131
                                         /\ r[i].expiry = NaT
                                         /\ r[i].active_subscription = (r[i].first_payment_at # NaT)}}

InitTrends ==
    /\ opens \in {EventFrame(s) :
                    s \in SeqsUpTo([email : Emails, post_id : {1},
                                    timestamp : {ClockStart - 31, ClockStart - 30, ClockStart + 1}],
                                   MaxRows)}
    /\ delivers \in {EventFrame(s) :
                    s \in SeqsUpTo([email : Emails, post_id : {1}, timestamp : {ClockStart - 30}],
                                   MaxEventRows)}
    /\ subscribers \in TrendSubscribers
    /\ posts \in {p \in PostFrames : Len(p.rows) = 1 /\ p.rows[1].post_id = 1}
    /\ details = EmptyFrame
    /\ now = ClockStart
    /\ result = NoResult
    /\ files = InitialFiles

\* the call adds the month columns to the tables it was given
CallEngagementTrends ==
    /\ result' = analyze_engagement_trends(subscribers, opens, delivers, posts, now)
    /\ IF IsEmpty(opens) \/ IsEmpty(delivers)
       THEN UNCHANGED <<subscribers, opens, delivers>>
       ELSE /\ opens' = WithColumn(opens, "month")
            /\ delivers' = WithColumn(delivers, "month")
            /\ subscribers' = WithColumn(subscribers, "signup_month")
    /\ UNCHANGED <<posts, details, now, files>>

\* the call adds the signup_month and signup_dow columns to the table it was given
CallSubscriberAcquisition ==
    /\ result' = analyze_subscriber_acquisition(subscribers)
    /\ subscribers' = IF HasCols(subscribers, {"plan"})
                      THEN WithColumn(WithColumn(subscribers, "signup_month"), "signup_dow")
                      ELSE subscribers
    /\ UNCHANGED <<posts, opens, delivers, details, now, files>>

NextTrends == Tick \/ CallEngagementTrends \/ CallSubscriberAcquisition

SpecTrends == InitTrends /\ [][NextTrends]_vars

----------------------------------------------------------------------------
(* The classifiers applied to rates, src/metrics.py *)

MaxNumerator == 60      \* largest count in the numerator of a classified rate

Classifiers == {"rate_open_rate", "rate_ctr", "rate_ctor", "rate_conversion",
                "rate_growth", "rate_churn", "rate_unsubscribe"}
\* rates as quotients over 5, 100 and 10000; the list can shrink, so -1 as well
ClassifiedRates == {Div(n, d) : n \in -1..MaxNumerator, d \in {5, 100, 10000}}

Classify(f, rate) ==
    IF f = "rate_open_rate" THEN rate_open_rate(rate)
    ELSE IF f = "rate_ctr" THEN rate_ctr(rate)
    ELSE IF f = "rate_ctor" THEN rate_ctor(rate)
    ELSE IF f = "rate_conversion" THEN rate_conversion(rate)
    ELSE IF f = "rate_growth" THEN rate_growth(rate)
    ELSE IF f = "rate_churn" THEN rate_churn(rate)
    ELSE rate_unsubscribe(rate)

InitClassifiers ==
    /\ subscribers = load_subscribers(<<>>)
    /\ posts \in {p \in PostFrames : p.rows = <<>>}
    /\ opens = EmptyFrame
    /\ delivers = EmptyFrame
    /\ details = EmptyFrame
    /\ now = ClockStart
    /\ result = NoResult
    /\ files = InitialFiles

CallClassifier ==
    \E f \in Classifiers, rate \in ClassifiedRates :
        /\ result' = [fn |-> f, raised |-> "none", rate |-> rate, label |-> Classify(f, rate)]
        /\ UNCHANGED <<subscribers, posts, opens, delivers, details, now, files>>

NextClassifiers == CallClassifier

SpecClassifiers == InitClassifiers /\ [][NextClassifiers]_vars

----------------------------------------------------------------------------
(* Dataset uploads and deletion, src/upload_handler.py *)

DATA_DIR == <<".data">>
MANIFEST_FILE == <<"manifest.json">>

IsAbsolute(p) == Len(p) > 0 /\ p[1] = "/"
\* '..' steps back over the component before it
RECURSIVE Normalized(_)
Normalized(p) ==
    IF p = <<>> THEN <<>>
    ELSE LET front == Normalized(SubSeq(p, 1, Len(p) - 1))
         IN  IF p[Len(p)] = ".." THEN SubSeq(front, 1, Len(front) - 1)
             ELSE Append(front, p[Len(p)])
\* the directory a path names for the operating system
Resolved(p) == Normalized(IF IsAbsolute(p) THEN p ELSE WorkingDir \o p)
IsPrefix(base, p) == Len(p) >= Len(base) /\ SubSeq(p, 1, Len(base)) = base
\* PurePath.is_relative_to compares the components as written
is_relative_to(p, base) == IsPrefix(base, p)
\* Path.exists
Exists(fs, p) == Resolved(p) \in DOMAIN fs
\* shutil.rmtree: the directory and everything below it
rmtree(fs, p) == [d \in {x \in DOMAIN fs : ~IsPrefix(Resolved(p), x)} |-> fs[d]]
\* DATA_DIR.iterdir(): the directories directly in DATA_DIR
DatasetDirs(fs) == {d \in DOMAIN fs : IsPrefix(Resolved(DATA_DIR), d) /\ Len(d) = Len(Resolved(DATA_DIR)) + 1}

\* datetime.now().strftime("%Y-%m-%d_%H-%M-%S"): one id per second of the clock
generate_dataset_id(clock) == ToString(clock)

\* an uploaded file: the member names of the archive, or not a zip archive at all
RootedExport == {<<"export", "posts.csv">>, <<"export", "email_list.csv">>,
                 <<"export", "posts", "1.opens.csv">>}
FlatExport == {<<"posts.csv">>, <<"email_list.csv">>, <<"posts", "1.opens.csv">>}
NotesOnly == {<<"notes.txt">>}
SourceFilenames == {"a.zip", "b.zip"}
ZipFiles ==
    [bad : {FALSE}, members : {RootedExport, FlatExport, NotesOnly}, filename : SourceFilenames]
       \cup [bad : {TRUE}, members : {{}}, filename : SourceFilenames]

\* the names the members are written under: with exactly one top-level directory
\* among the member names only its members are written, without the prefix
ExtractedNames(members) ==
    LET root_dirs == {n[1] : n \in {x \in members : Len(x) > 1}}
    IN  IF Cardinality(root_dirs) = 1
        THEN {Tail(n) : n \in {x \in members : Len(x) > 1 /\ x[1] \in root_dirs}}
        ELSE members

\* files written into a directory replace the files of the same name
WriteFiles(content, written) ==
    {f \in content : \A w \in written : w.name # f.name} \cup written

\* the tree and the outcome: mkdir(exist_ok=True), then BadZipFile or the members
extract_substack_export(fs, zip_file, target_dir) ==
    LET before == IF target_dir \in DOMAIN fs THEN fs[target_dir] ELSE {}
        made == [d \in DOMAIN fs \cup {target_dir} |-> IF d = target_dir THEN before ELSE fs[d]]
        written == {[name |-> n, source |-> zip_file.filename, upload_date |-> None] :
                       n \in ExtractedNames(zip_file.members)}
    IN  IF zip_file.bad
        THEN [fs |-> made, success |-> FALSE, message |-> "Invalid zip file"]
        ELSE [fs |-> [made EXCEPT ![target_dir] = WriteFiles(before, written)],
              success |-> TRUE, message |-> "Export extracted successfully"]

validate_export_structure(content) ==
    /\ \E f \in content : f.name = <<"posts.csv">>
    /\ \E f \in content : f.name = <<"email_list.csv">>
    /\ \E f \in content : Len(f.name) > 1 /\ f.name[1] = "posts"
    /\ \E f \in content : f.name \in {<<"posts", "1.opens.csv">>, <<"posts", "1.delivers.csv">>}

create_manifest(content, source_filename, clock) ==
    WriteFiles(content, {[name |-> MANIFEST_FILE, source |-> source_filename,
                          upload_date |-> clock]})

\* the tree after the call and the tuple the call returns
process_upload(fs, zip_file, clock) ==
    LET dataset_id == generate_dataset_id(clock)
        target_dir == Resolved(DATA_DIR \o <<dataset_id>>)
        extracted == extract_substack_export(fs, zip_file, target_dir)
    IN  IF ~extracted.success
        THEN [fs |-> IF target_dir \in DOMAIN extracted.fs
                     THEN rmtree(extracted.fs, target_dir) ELSE extracted.fs,
              result |-> [fn |-> "process_upload", raised |-> "none", success |-> FALSE,
                          message |-> extracted.message, dataset_path |-> <<>>,
                          filename |-> zip_file.filename]]
        ELSE IF ~validate_export_structure(extracted.fs[target_dir])
        THEN [fs |-> rmtree(extracted.fs, target_dir),
              result |-> [fn |-> "process_upload", raised |-> "none", success |-> FALSE,
                          message |-> "Invalid export structure", dataset_path |-> <<>>,
                          filename |-> zip_file.filename]]
        ELSE [fs |-> [extracted.fs EXCEPT ![target_dir] =
                         create_manifest(extracted.fs[target_dir], zip_file.filename, clock)],
              result |-> [fn |-> "process_upload", raised |-> "none", success |-> TRUE,
                          message |-> "Successfully imported",
                          dataset_path |-> DATA_DIR \o <<dataset_id>>,
                          filename |-> zip_file.filename]]

load_manifest(content) == {f \in content : f.name = MANIFEST_FILE}

\* the entries before sorting; the path of an entry is str(item), relative like DATA_DIR
DatasetEntries(fs) ==
    {[path |-> DATA_DIR \o <<d[Len(d)]>>, id |-> d[Len(d)],
      upload_date |-> IF load_manifest(fs[d]) # {}
                      THEN (CHOOSE f \in load_manifest(fs[d]) : TRUE).upload_date ELSE None,
      source_filename |-> IF load_manifest(fs[d]) # {}
                          THEN (CHOOSE f \in load_manifest(fs[d]) : TRUE).source
                          ELSE "Unknown"] :
        d \in {x \in DatasetDirs(fs) :
                  load_manifest(fs[x]) # {} \/ validate_export_structure(fs[x])}}

\* newest first; entries of equal upload date keep the order iterdir gave them,
\* which is any order: the set of lists the call can return
get_available_datasets(fs) ==
    LET entries == DatasetEntries(fs)
    IN  {t \in [1..Cardinality(entries) -> entries] :
            /\ \A e \in entries : \E i \in 1..Cardinality(entries) : t[i] = e
            /\ \A i, j \in 1..Cardinality(entries) :
                  i < j => t[i].upload_date >= t[j].upload_date}

\* the tree after the call and the tuple the call returns
delete_dataset(fs, dataset_path) ==
    IF ~Exists(fs, dataset_path)
    THEN [fs |-> fs,
          result |-> [fn |-> "delete_dataset", raised |-> "none", success |-> FALSE,
                      message |-> "Dataset not found", path |-> dataset_path]]
    ELSE IF ~is_relative_to(dataset_path, Resolved(DATA_DIR))
    THEN [fs |-> fs,
          result |-> [fn |-> "delete_dataset", raised |-> "none", success |-> FALSE,
                      message |-> "Invalid dataset path", path |-> dataset_path]]
    ELSE [fs |-> rmtree(fs, dataset_path),
          result |-> [fn |-> "delete_dataset", raised |-> "none", success |-> TRUE,
                      message |-> "Dataset deleted successfully", path |-> dataset_path]]

\* the paths delete_dataset is called with: the path of a listed entry (the
\* sidebar's delete button), the absolute path of a dataset, a directory next
\* to DATA_DIR written directly or through DATA_DIR/.., and a missing path
DeletePaths(fs) ==
    {e.path : e \in DatasetEntries(fs)}
       \cup {Resolved(e.path) : e \in DatasetEntries(fs)}
       \cup {OtherDir, Resolved(DATA_DIR) \o <<"..", "other">>, <<"other">>,
             DATA_DIR \o <<"missing">>}

InitUpload ==
    /\ subscribers = load_subscribers(<<>>)
    /\ posts \in {p \in PostFrames : p.rows = <<>>}
    /\ opens = EmptyFrame
    /\ delivers = EmptyFrame
    /\ details = EmptyFrame
    /\ now = ClockStart
    /\ result = NoResult
    /\ files = InitialFiles

ProcessUpload ==
    \E zip_file \in ZipFiles :
        /\ files' = process_upload(files, zip_file, now).fs
        /\ result' = process_upload(files, zip_file, now).result
        /\ UNCHANGED <<subscribers, posts, opens, delivers, details, now>>

ListDatasets ==
    \E datasets \in get_available_datasets(files) :
        /\ result' = [fn |-> "get_available_datasets", raised |-> "none",
                      datasets |-> datasets]
        /\ UNCHANGED <<subscribers, posts, opens, delivers, details, now, files>>

DeleteDataset ==
    \E dataset_path \in DeletePaths(files) :
        /\ files' = delete_dataset(files, dataset_path).fs
        /\ result' = delete_dataset(files, dataset_path).result
        /\ UNCHANGED <<subscribers, posts, opens, delivers, details, now>>

NextUpload == Tick \/ ProcessUpload \/ ListDatasets \/ DeleteDataset

SpecUpload == InitUpload /\ [][NextUpload]_vars

----------------------------------------------------------------------------
(* Properties *)

Returned(f) == result.fn = f /\ result.raised = "none"
Rows(t) == {t[i] : i \in 1..Len(t)}
HeadlineMetrics == {"calculate_open_rate", "calculate_free_to_paid_conversion",
                    "calculate_list_growth_rate", "calculate_paid_churn"}
InPercentRange(r) == r.d > 0 /\ 0 <= r.n /\ r.n <= 100 * r.d

\* C1: every fraction the rate computations return is in [0, 1], whatever the
\* input: the value of the four headline metrics, the open_rate of every row of
\* calculate_post_metrics, the monthly open_rate and the active_ratio_30d of
\* analyze_engagement_trends; the per-post conversion_rate percentage of
\* analyze_post_conversions is in [0, 100].
RatesWithinRange ==
    /\ result.fn \in HeadlineMetrics /\ result.raised = "none" => InUnitRange(result.value)
    /\ Returned("calculate_post_metrics")
          => \A r \in Rows(result.table) : InUnitRange(r.open_rate)
    /\ Returned("analyze_engagement_trends") /\ result.monthly_engagement # <<>>
          => /\ \A r \in Rows(result.monthly_engagement) : InUnitRange(r.open_rate)
             /\ InUnitRange(result.active_ratio_30d)
    /\ Returned("analyze_post_conversions")
          => \A r \in Rows(result.conversion_posts) : InPercentRange(r.conversion_rate)

\* the denominator each headline metric divides by
Denominator(res) ==
    IF res.fn = "calculate_open_rate" THEN res.total_delivered
    ELSE IF res.fn = "calculate_free_to_paid_conversion" THEN res.total_subscribers
    ELSE IF res.fn = "calculate_list_growth_rate" THEN res.subscribers_at_start
    ELSE res.total_ever_paid

ZeroDenominator == result.fn \in HeadlineMetrics /\ result.raised = "none" /\ Denominator(result) = 0

\* C3 as stated: with a zero denominator the rating is the floor label of the
\* metric: Poor for open rate, Below average for conversion, Negative growth for
\* list growth, Poor for paid churn.
ZeroDenominatorRatedFloor ==
    ZeroDenominator =>
        result.rating = (IF result.fn = "calculate_open_rate" THEN "Poor"
                         ELSE IF result.fn = "calculate_free_to_paid_conversion"
                         THEN "Below average"
                         ELSE IF result.fn = "calculate_list_growth_rate"
                         THEN "Negative growth"
                         ELSE "Poor")

\* C3 amended: with a zero denominator the rating is the label the metric's
\* classifier gives the rate 0.0: Poor for open rate, Below average for
\* conversion, Slow for list growth, Excellent for paid churn.
ZeroDenominatorRatedAsZero ==
    ZeroDenominator =>
        result.rating = (IF result.fn = "calculate_open_rate" THEN "Poor"
                         ELSE IF result.fn = "calculate_free_to_paid_conversion"
                         THEN "Below average"
                         ELSE IF result.fn = "calculate_list_growth_rate"
                         THEN "Slow"
                         ELSE "Excellent")

\* C3 witness: a list growth with nobody at the start of the period is rated Slow
ZeroGrowthRatedSlow ==
    /\ Returned("calculate_list_growth_rate")
    /\ result.subscribers_at_start = 0
    /\ result.new_subscribers > 0
    /\ result.rating = "Slow"

RECURSIVE Repeat(_, _)
Repeat(rows, n) == IF n = 0 THEN <<>> ELSE rows \o Repeat(rows, n - 1)
Repeated(df, n) == [df EXCEPT !.rows = Repeat(df.rows, n)]
\* the distinct emails of a table, of one post when a post is selected
DistinctEmails(df, post_id) ==
    {r.email : r \in {x \in Rows(df.rows) : Truthy(post_id) => x.post_id = post_id}}

\* C4: the open rate result (value, unique_opens, total_delivered, rating) is the
\* same when every row of opens, of delivers, or of both is repeated n times, and
\* unique_opens and total_delivered are the numbers of distinct emails.
OpenRateIgnoresRepeatedRows ==
    Returned("calculate_open_rate") =>
        /\ \A n, m \in 1..MaxRepeat :
              calculate_open_rate(Repeated(opens, n), Repeated(delivers, m), result.post_id)
                 = result
        /\ result.unique_opens = Cardinality(DistinctEmails(opens, result.post_id))
        /\ result.total_delivered = Cardinality(DistinctEmails(delivers, result.post_id))

\* C4 witness: an open rate over an opens table that holds the same row twice
RepeatedRowsWitness ==
    /\ Returned("calculate_open_rate")
    /\ \E i, j \in 1..Len(opens.rows) : i < j /\ opens.rows[i] = opens.rows[j]
    /\ result.unique_opens > 0
    /\ result.unique_opens < Len(opens.rows)
    /\ result.total_delivered > 0

----------------------------------------------------------------------------
(* Properties of the attribution *)

PaidSubscribers == {x \in Rows(subscribers.rows) : x.is_paid /\ x.first_payment_at # NaT}
\* the open r falls in the closed window of the subscriber sub
InWindow(sub, r) ==
    /\ r.email = sub.email
    /\ sub.first_payment_at - conversion_window_days <= r.timestamp
    /\ r.timestamp <= sub.first_payment_at
\* the paid subscribers with an in-window open of post p
Converters(p) ==
    {x.email : x \in {y \in PaidSubscribers :
                         \E r \in Rows(opens.rows) : r.post_id = p /\ InWindow(y, r)}}
AttributionList == ConversionAttribution(subscribers, opens)

\* C5: a (paid subscriber, post) pair is attributed at most once however many of
\* its opens fall in the window, and the conversions of a post are the number of
\* distinct paid subscribers with an in-window open of it; every post with such a
\* subscriber has exactly one row.
AttributionCountsSubscriberOnce ==
    result.fn = "analyze_post_conversions" =>
        /\ \A i, j \in 1..Len(AttributionList) :
              (/\ AttributionList[i].email = AttributionList[j].email
               /\ AttributionList[i].post_id = AttributionList[j].post_id) => i = j
        /\ result.raised = "none" =>
              /\ \A r \in Rows(result.conversion_posts) :
                    r.conversions = Cardinality(Converters(r.post_id))
              /\ \A i, j \in 1..Len(result.conversion_posts) :
                    result.conversion_posts[i].post_id = result.conversion_posts[j].post_id
                       => i = j
              /\ \A q \in PostIds :
                    Converters(q) # {}
                       => \E r \in Rows(result.conversion_posts) : r.post_id = q

\* C5 witness: a paid subscriber opened one post three times, twice inside the
\* window and once outside, and the post has exactly 1 conversion
RepeatedOpensWitness ==
    /\ Returned("analyze_post_conversions")
    /\ \E x \in PaidSubscribers : \E q \in PostIds :
          /\ \E i, j, k \in 1..Len(opens.rows) :
                /\ i < j /\ j # k /\ i # k
                /\ opens.rows[i].post_id = q /\ InWindow(x, opens.rows[i])
                /\ opens.rows[j].post_id = q /\ InWindow(x, opens.rows[j])
                /\ opens.rows[k].post_id = q /\ opens.rows[k].email = x.email
                /\ ~InWindow(x, opens.rows[k])
          /\ \E r \in Rows(result.conversion_posts) : r.post_id = q /\ r.conversions = 1

\* C6: the opens of a paid subscriber that are attributed are exactly those with
\* first_payment_at - 7 <= timestamp <= first_payment_at, both bounds included; the
\* posts of the returned table are the posts of these opens, and when no paid
\* subscriber has an in-window open the call returns an empty table, no error.
WindowIsClosedInterval ==
    result.fn = "analyze_post_conversions" =>
        /\ \A x \in PaidSubscribers :
              Rows(WindowOpens(x, opens)) = {r \in Rows(opens.rows) : InWindow(x, r)}
        /\ {<<a.email, a.post_id>> : a \in Rows(AttributionList)}
              = {<<e, q>> \in Emails \X PostIds :
                    \E x \in PaidSubscribers : \E r \in Rows(opens.rows) :
                        x.email = e /\ r.post_id = q /\ InWindow(x, r)}
        /\ result.raised = "none" =>
              {r.post_id : r \in Rows(result.conversion_posts)}
                 = {q \in PostIds : Converters(q) # {}}
        /\ (\A q \in PostIds : Converters(q) = {}) =>
              result.raised = "none" /\ result.conversion_posts = <<>>

\* C6 witness: a paid subscriber with an open exactly 7 days before the payment,
\* one exactly at the payment, both of a post of the table, and an open of another
\* post the day after the payment, which is not in the table
WindowBoundsWitness ==
    /\ Returned("analyze_post_conversions")
    /\ \E x \in PaidSubscribers : \E q, q2 \in PostIds :
          /\ q # q2
          /\ \E r \in Rows(opens.rows) :
                /\ r.email = x.email /\ r.post_id = q
                /\ r.timestamp = x.first_payment_at - conversion_window_days
          /\ \E r \in Rows(opens.rows) :
                r.email = x.email /\ r.post_id = q /\ r.timestamp = x.first_payment_at
          /\ \E r \in Rows(opens.rows) :
                r.email = x.email /\ r.post_id = q2 /\ r.timestamp = x.first_payment_at + 1
          /\ {r.post_id : r \in Rows(result.conversion_posts)} = {q}

----------------------------------------------------------------------------
(* Properties of the engagement tiers *)

DeliveredPosts(e) == {r.post_id : r \in {x \in Rows(delivers.rows) : x.email = e}}
OpenedPosts(e) == {r.post_id : r \in {x \in Rows(opens.rows) : x.email = e}}
Eligible == {e \in Emails : Cardinality(DeliveredPosts(e)) >= 5}
IsSuper(e) == 10 * Cardinality(OpenedPosts(e)) >= 8 * Cardinality(DeliveredPosts(e))
IsAtRisk(e) == 10 * Cardinality(OpenedPosts(e)) < 2 * Cardinality(DeliveredPosts(e))
Classified == Returned("identify_super_engagers") /\ result.summary = "super engagers"

\* C7: the emails analysed are exactly those with at least 5 distinct delivered
\* posts; each is super engager (rate >= 0.8), at risk (rate < 0.2) or average, so
\* super_engager_count + at_risk_count <= total_analyzed and the average count is
\* not negative, for any subscribers table; other emails are in no bucket.
TiersPartitionAnalyzed ==
    Classified =>
        /\ result.total_analyzed = Cardinality(Eligible)
        /\ result.super_engager_count = Cardinality({e \in Eligible : IsSuper(e)})
        /\ result.at_risk_count = Cardinality({e \in Eligible : IsAtRisk(e)})
        /\ \A e \in Eligible : ~(IsSuper(e) /\ IsAtRisk(e))
        /\ result.super_engager_count + result.at_risk_count <= result.total_analyzed
        /\ AverageCount(result) >= 0
        /\ \A r \in Rows(result.super_engagers) : r.email \in Eligible

----------------------------------------------------------------------------
(* Properties of the list cleaning *)

Analysed == Returned("render_inactive_subscribers") /\ result.shown = "analysis"
EmailsOf(t) == {t[i].email : i \in 1..Len(t)}
\* the emails the view lists for removal or outreach, or removes in the simulation
ListedEmails ==
    EmailsOf(result.never_opened_clean) \cup EmailsOf(result.inactive_df)
       \cup EmailsOf(result.reengagement_df) \cup EmailsOf(result.to_remove)
Flagged(r) == r.never_opened \/ r.inactive \/ r.reengagement_candidate

\* C8: a subscriber with emails_received_6mo <= 8, exactly 8 included, carries
\* none of the flags never_opened, inactive, reengagement_candidate and is in no
\* list, whatever its other fields are.
FewEmailsNeverCategorized ==
    Analysed =>
        /\ \A r \in Rows(result.details) :
              r.emails_received_6mo <= MIN_EMAILS => ~Flagged(r)
        /\ \A d \in Rows(details.rows) :
              (d.emails_received_6mo = NaN \/ d.emails_received_6mo <= MIN_EMAILS)
                 => d.email \notin ListedEmails

\* C8 witness: a free subscriber signed up long ago with exactly 8 emails received
\* and none opened, no other engagement, is analysed and not flagged
EightEmailsWitness ==
    /\ Analysed
    /\ \E d \in Rows(details.rows) :
          /\ d.emails_received_6mo = MIN_EMAILS
          /\ d.total_emails_opened = 0
          /\ ~d.is_paid
          /\ d.start_date # NaT /\ now - d.start_date > 30
          /\ ~OtherEngagement(d)
          /\ \E r \in Rows(result.details) : r.email = d.email /\ ~Flagged(r)

\* C9: a paid subscriber is in none of the three categories: it carries no flag,
\* is not counted in the three category counts, and is in no removal list and not
\* in the removal set of the impact simulation.
PaidNeverCategorized ==
    Analysed =>
        /\ \A r \in Rows(result.details) : r.is_paid => ~Flagged(r)
        /\ result.never_opened_count
              = Cardinality({r \in Rows(result.details) : r.never_opened /\ ~r.is_paid})
        /\ result.inactive_count
              = Cardinality({r \in Rows(result.details) : r.inactive /\ ~r.is_paid})
        /\ result.reengagement_count
              = Cardinality({r \in Rows(result.details) : r.reengagement_candidate /\ ~r.is_paid})
        /\ \A r \in Rows(result.details) : r.is_paid => r.email \notin ListedEmails

BinsMatched(r) ==
    (IF r.never_opened THEN 1 ELSE 0) + (IF r.inactive THEN 1 ELSE 0)
       + (IF r.reengagement_candidate THEN 1 ELSE 0)

----------------------------------------------------------------------------
\* C11: no engine call modifies the tables it is given: across every step the
\* subscribers, posts, opens and delivers tables keep exactly the columns and
\* the rows they had.
InputTablesUnmodified ==
    [][/\ subscribers' = subscribers
       /\ posts' = posts
       /\ opens' = opens
       /\ delivers' = delivers]_vars

\* the arguments of a returned call other than the tables
CallArgs(res) ==
    IF res.fn = "calculate_open_rate" THEN res.post_id
    ELSE IF res.fn = "calculate_list_growth_rate" THEN res.months
    ELSE None

\* C12: a call repeated on the same tables with the same arguments returns the
\* result of the earlier call, whatever the system clock reads at either call.
RepeatedCallSameResult ==
    [][(/\ result.fn # "none"
        /\ result.raised = "none"
        /\ result'.fn = result.fn
        /\ result'.raised = "none"
        /\ CallArgs(result') = CallArgs(result)
        /\ <<subscribers, posts, opens, delivers>>' = <<subscribers, posts, opens, delivers>>)
       => result' = result]_vars

----------------------------------------------------------------------------
\* the functions of C13 take no subscriber detail rows, so the missing data they
\* can meet is in the four tables below
GuardedFunctions == {"analyze_post_conversions", "analyze_engagement_by_post",
                     "analyze_engagement_trends", "identify_super_engagers",
                     "calculate_open_rate"}
OptionalDataMissing ==
    \/ IsEmpty(opens)
    \/ IsEmpty(delivers)
    \/ IsEmpty(posts)
    \/ \A i \in 1..Len(subscribers.rows) : ~subscribers.rows[i].is_paid

\* C13: when optional data is missing (opens or delivers empty, posts empty, no
\* paid subscriber, no detail rows), a call of analyze_post_conversions,
\* analyze_engagement_by_post, analyze_engagement_trends, identify_super_engagers
\* or calculate_open_rate raises nothing and returns a summary (a rate for
\* calculate_open_rate).
MissingDataReturnsSummary ==
    (result.fn \in GuardedFunctions /\ OptionalDataMissing)
        => /\ result.raised = "none"
           /\ \/ "summary" \in DOMAIN result
              \/ "value" \in DOMAIN result

----------------------------------------------------------------------------
\* the distinct emails of a table, restricted to one post when a post id is given
EmailsOfPost(df, post_id) ==
    {r.email : r \in {x \in Rows(df.rows) : post_id = None \/ x.post_id = post_id}}

\* C14: calculate_open_rate restricts opens and delivers to the post for every
\* post id passed, 0 included, and uses the whole tables only when none is
\* passed: unique_opens and total_delivered are the distinct-email counts of the
\* restricted tables.
PostFilterForEveryPostId ==
    Returned("calculate_open_rate")
        => /\ result.unique_opens = Cardinality(EmailsOfPost(opens, result.post_id))
           /\ result.total_delivered = Cardinality(EmailsOfPost(delivers, result.post_id))

----------------------------------------------------------------------------
CreatedAt == [i \in 1..Len(subscribers.rows) |-> subscribers.rows[i].created_at]
LatestSignup == SetMax({CreatedAt[i] : i \in 1..Len(CreatedAt)})
AtStart(months) == {i \in 1..Len(CreatedAt) : CreatedAt[i] <= LatestSignup - 30 * months}
NewInPeriod(months) ==
    {i \in 1..Len(CreatedAt) : /\ LatestSignup - 30 * months < CreatedAt[i]
                               /\ CreatedAt[i] <= LatestSignup}

----------------------------------------------------------------------------
EverPaid == {i \in 1..Len(subscribers.rows) : subscribers.rows[i].first_payment_at # NaT}
Lapsed(clock) ==
    {i \in EverPaid : /\ ~subscribers.rows[i].active_subscription
                      /\ subscribers.rows[i].expiry # NaT
                      /\ subscribers.rows[i].expiry < clock}

\* C16: a call of calculate_paid_churn counts as churned exactly the ever-paid
\* subscribers whose subscription is inactive and whose expiry is present and
\* before the clock at the call; an inactive subscription without expiry, or
\* with an expiry not yet passed, is retained; retained = total_ever_paid -
\* churned and 0 <= churned <= total_ever_paid.
ChurnedNeedsPassedExpiry ==
    [][(result'.fn = "calculate_paid_churn" /\ now' = now)
        => /\ result'.raised = "none"
           /\ result'.total_ever_paid = Cardinality(EverPaid)
           /\ result'.churned = Cardinality(Lapsed(now))
           /\ result'.retained = result'.total_ever_paid - result'.churned
           /\ 0 <= result'.churned
           /\ result'.churned <= result'.total_ever_paid
           /\ result'.value = IF result'.total_ever_paid > 0
                              THEN Div(result'.churned, result'.total_ever_paid)
                              ELSE Zero]_vars

\* one lapsed subscriber is churned, one inactive subscriber without expiry is
\* retained
ChurnWitness ==
    /\ Returned("calculate_paid_churn")
    /\ result.churned = 1
    /\ result.retained >= 1
    /\ Lapsed(now) # {}
    /\ \E i \in EverPaid : /\ ~subscribers.rows[i].active_subscription
                           /\ subscribers.rows[i].expiry = NaT

----------------------------------------------------------------------------
\* C17: the conversion_posts table is ordered by conversions descending, and
\* posts with equal conversions come in ascending post_id order.
ConversionPostsTieOrder ==
    Returned("analyze_post_conversions")
        => \A i, j \in 1..Len(result.conversion_posts) :
              i < j => LET a == result.conversion_posts[i]
                           b == result.conversion_posts[j]
                       IN  \/ a.conversions > b.conversions
                           \/ a.conversions = b.conversions /\ a.post_id < b.post_id

----------------------------------------------------------------------------
FracEq(a, b) == a.n * b.d = b.n * a.d
Qualifying == {r \in Rows(result.all_posts) : r.delivered >= 50}
\* the sum of the open rates of a set of rows of the per-post table
RECURSIVE RateTotal(_)
RateTotal(S) ==
    IF S = {} THEN Zero
    ELSE LET r == CHOOSE x \in S : TRUE IN FracAdd(r.open_rate, RateTotal(S \ {r}))

\* C18: significant_posts are exactly the posts with delivered >= 50;
\* avg_open_rate is the mean open rate over those posts only, 0 when there are
\* none; top_performers are the significant posts with open_rate >
\* avg_open_rate, low_performers those with open_rate < 0.7 * avg_open_rate;
\* both are subsets of significant_posts, they are disjoint, and a post with
\* fewer than 50 deliveries is in neither.
BenchmarkOverSignificantPosts ==
    Returned("analyze_engagement_by_post")
        => LET avg == result.avg_open_rate
               top == Rows(result.top_performers)
               low == Rows(result.low_performers)
           IN  /\ Rows(result.significant_posts) = Qualifying
               /\ Len(result.significant_posts) = Cardinality(Qualifying)
               /\ IF Qualifying = {} THEN avg = Zero
                  ELSE FracEq([n |-> avg.n * Cardinality(Qualifying), d |-> avg.d],
                              RateTotal(Qualifying))
               /\ top = {r \in Qualifying : FracLT(avg, r.open_rate)}
               /\ low = {r \in Qualifying :
                            10 * r.open_rate.n * avg.d < 7 * avg.n * r.open_rate.d}
               /\ top \subseteq Qualifying
               /\ low \subseteq Qualifying
               /\ top \cap low = {}
               /\ \A r \in Rows(result.all_posts) :
                     r.delivered < 50 => r \notin top \cup low

\* a top performer, a low performer, and a post delivered to 49 subscribers
\* whose open rate is above the average and which is in neither
BenchmarkWitness ==
    /\ Returned("analyze_engagement_by_post")
    /\ result.top_performers # <<>>
    /\ result.low_performers # <<>>
    /\ \E r \in Rows(result.all_posts) :
          /\ r.delivered = 49
          /\ FracLT(result.avg_open_rate, r.open_rate)
          /\ r \notin Rows(result.top_performers)

----------------------------------------------------------------------------
EventMonths(df) == {MonthOf(r.timestamp) : r \in Rows(df.rows)}
EmailsInMonth(df, m) == {r.email : r \in {x \in Rows(df.rows) : MonthOf(x.timestamp) = m}}

\* C19: in the monthly_engagement series every month with an open or a deliver
\* event is present, a month present in only one of the two tables has the
\* missing count 0, and open_rate is opens/delivers, 0 whenever the month's
\* delivers count is 0.
MonthlyOpenRateGuarded ==
    (Returned("analyze_engagement_trends") /\ ~IsEmpty(opens) /\ ~IsEmpty(delivers))
        => /\ {r.month : r \in Rows(result.monthly_engagement)}
                = EventMonths(opens) \cup EventMonths(delivers)
           /\ \A r \in Rows(result.monthly_engagement) :
                 /\ r.opens = Cardinality(EmailsInMonth(opens, r.month))
                 /\ r.delivers = Cardinality(EmailsInMonth(delivers, r.month))
                 /\ r.open_rate = IF r.delivers = 0 THEN Zero ELSE Div(r.opens, r.delivers)

\* the distinct emails with an open in the 30 days up to the instant
OpenersInWindow(instant) ==
    {r.email : r \in {x \in Rows(opens.rows) : /\ instant - 30 <= x.timestamp
                                               /\ x.timestamp <= instant}}

\* C20: a call of analyze_engagement_trends returns as recent_openers the number
\* of distinct emails with an open in the closed window [now - 30 days, now],
\* opens after now not counted, and active_ratio_30d = recent_openers / number
\* of subscribers, 0 when there are none.
RecentOpenersInClosedWindow ==
    [][(/\ result'.fn = "analyze_engagement_trends"
        /\ now' = now
        /\ ~IsEmpty(opens)
        /\ ~IsEmpty(delivers))
        => /\ result'.recent_openers = Cardinality(OpenersInWindow(now))
           /\ result'.total_subscribers = Len(subscribers.rows)
           /\ result'.active_ratio_30d =
                 IF Len(subscribers.rows) > 0
                 THEN Div(result'.recent_openers, Len(subscribers.rows))
                 ELSE Zero]_vars

----------------------------------------------------------------------------
(* Properties of the list-cleaning categories and lists *)

\* the exported row of the subscriber with email e
DetailOf(e) == CHOOSE d \in Rows(details.rows) : d.email = e
\* the view is rendered with the analysis shown, read at the clock of the call
AnalysisStep ==
    /\ result'.fn = "render_inactive_subscribers"
    /\ result'.raised = "none"
    /\ result'.shown = "analysis"
    /\ now' = now
ZeroOtherEngagement(d) ==
    d.links_clicked = 0 /\ d.comments = 0 /\ d.shares = 0 /\ d.post_views = 0
FlaggedFree(res) ==
    {r \in Rows(res.details) : r.never_opened /\ ~DetailOf(r.email).is_paid}
\* the clean Never Opened list and the data-quality warning of a rendered view
CleanListAndWarning(res) ==
    /\ EmailsOf(res.never_opened_clean)
          = {r.email : r \in {x \in FlaggedFree(res) : ZeroOtherEngagement(DetailOf(x.email))}}
    /\ Len(res.never_opened_clean) = Cardinality(EmailsOf(res.never_opened_clean))
    /\ res.has_other
          = Cardinality({x \in FlaggedFree(res) : ~ZeroOtherEngagement(DetailOf(x.email))})
    /\ \A x \in FlaggedFree(res) :
          ~ZeroOtherEngagement(DetailOf(x.email))
             => x.email \notin EmailsOf(res.never_opened_clean)

InactiveFlagExact ==
    [][AnalysisStep
        => \A r \in Rows(result'.details) :
              LET d == DetailOf(r.email)
              IN  /\ r.inactive <=> /\ d.emails_received_6mo # NaN
                                    /\ d.emails_received_6mo > 8
                                    /\ d.total_emails_opened > 0
                                    /\ d.last_email_open # NaT
                                    /\ now - d.last_email_open > 30
                                    /\ d.links_clicked = 0
                                    /\ d.shares = 0
                                    /\ d.comments = 0
                                    /\ (d.start_date = NaT \/ now - d.start_date > 30)
                                    /\ ~d.is_paid
                  /\ d.last_email_open = NaT => ~r.inactive]_vars

\* C22 witness: one subscriber is flagged inactive, and a free one with past
\* opens, more than 8 emails, no other engagement, no signup date and no
\* recorded last open is not
InactiveWitness ==
    /\ Analysed
    /\ \E r \in Rows(result.details) : r.inactive
    /\ \E r \in Rows(result.details) :
          LET d == DetailOf(r.email)
          IN  /\ d.last_email_open = NaT /\ d.total_emails_opened > 0
              /\ d.emails_received_6mo > 8 /\ ~d.is_paid /\ d.start_date = NaT
              /\ d.links_clicked = 0 /\ d.shares = 0 /\ d.comments = 0
              /\ ~r.inactive

\* C23: a subscriber is flagged reengagement_candidate exactly when
\* emails_received_6mo > 8, total_emails_opened > 0, emails_opened_6mo /
\* emails_received_6mo >= 0.30 (0.30 itself included), the last open is more
\* than 30 days before the call (30 days itself excluded), it is not new and it
\* is not paid.
ReengagementFlagExact ==
    [][AnalysisStep
        => \A r \in Rows(result'.details) :
              LET d == DetailOf(r.email)
              IN  r.reengagement_candidate
                     <=> /\ d.emails_received_6mo # NaN
                         /\ d.emails_received_6mo > 8
                         /\ d.total_emails_opened > 0
                         /\ 10 * d.emails_opened_6mo >= 3 * d.emails_received_6mo
                         /\ d.last_email_open # NaT
                         /\ now - d.last_email_open > 30
                         /\ (d.start_date = NaT \/ now - d.start_date > 30)
                         /\ ~d.is_paid]_vars

\* C23 witness: a subscriber with 3 of 10 emails opened and the last open 31
\* days back is flagged, one with the same rate and the last open 30 days back
\* is not
ReengagementWitness ==
    /\ Analysed
    /\ \E r \in Rows(result.details) :
          /\ r.reengagement_candidate
          /\ r.days_since_last_open = 31
          /\ DetailOf(r.email).emails_opened_6mo = 3
          /\ DetailOf(r.email).emails_received_6mo = 10
    /\ \E r \in Rows(result.details) :
          /\ ~r.reengagement_candidate
          /\ r.days_since_last_open = 30
          /\ ~r.is_paid /\ ~r.is_new_subscriber
          /\ DetailOf(r.email).emails_opened_6mo = 3
          /\ DetailOf(r.email).emails_received_6mo = 10
          /\ DetailOf(r.email).total_emails_opened > 0

----------------------------------------------------------------------------
(* Properties of the impact simulation *)

\* the removal set the chosen option stands for
ChosenRemovalSet ==
    IF result.removal_threshold = "Inactive (lapsed)" THEN EmailsOf(result.inactive_df)
    ELSE IF result.removal_threshold = "Never opened (no other engagement)"
    THEN EmailsOf(result.never_opened_clean)
    ELSE EmailsOf(result.never_opened_clean) \cup EmailsOf(result.inactive_df)
ActiveRows(rs) == {r \in rs : r.days_since_last_open # NaN /\ r.days_since_last_open <= 30}
RemainingRows == {r \in Rows(result.details) : r.email \notin EmailsOf(result.to_remove)}

\* C24: for each removal choice the simulation removes the chosen set, reports
\* remaining = total - |removal set|, a new active rate of (subscribers not in
\* the removal set with a last open within 30 days) / remaining, a pre-removal
\* rate of active / total, and a delta new - pre-removal that is not negative.
ImpactSimulationOverRemaining ==
    Analysed =>
        /\ EmailsOf(result.to_remove) = ChosenRemovalSet
        /\ Len(result.to_remove) = Cardinality(ChosenRemovalSet)
        /\ result.remaining = result.total - Cardinality(ChosenRemovalSet)
        /\ FracEq(result.new_active_rate,
                  IF result.remaining > 0
                  THEN Div(100 * Cardinality(ActiveRows(RemainingRows)), result.remaining)
                  ELSE Zero)
        /\ FracEq(result.current_active_rate,
                  Div(100 * Cardinality(ActiveRows(Rows(result.details))), result.total))
        /\ ~FracLT(result.new_active_rate, result.current_active_rate)

----------------------------------------------------------------------------
(* Properties of the zero denominators of the list-cleaning view *)

IsZeroRate(r) == r.d > 0 /\ r.n = 0
NoRowPassesPreFilter ==
    /\ ~IsEmpty(details)
    /\ \A d \in Rows(details.rows) : d.emails_received_6mo = NaN \/ d.emails_received_6mo = 0

\* C27: rendering the view never raises on a zero denominator: with details
\* present and no record passing the pre-filter, or no record with more than 8
\* emails, the view is shown, and the category percentages, the active
\* percentage of eligible and the removed percentage are 0.
ZeroDenominatorsAbsorbed ==
    result.fn = "render_inactive_subscribers"
        => /\ result.raised = "none"
           /\ NoRowPassesPreFilter => result.shown = "analysis"
           /\ (result.shown = "analysis" /\ result.eligible = 0)
                 => /\ IsZeroRate(result.never_opened_pct)
                    /\ IsZeroRate(result.inactive_pct)
                    /\ IsZeroRate(result.reengagement_pct)
                    /\ IsZeroRate(result.active_pct)
                    /\ IsZeroRate(result.removed_pct)

----------------------------------------------------------------------------
(* Properties of the flags taken together *)

----------------------------------------------------------------------------
(* Properties of the classifiers *)

\* C25: rate_open_rate returns a label for every rate: 'Excellent' iff rate >=
\* 0.45, 'Good' iff 0.30 <= rate < 0.45, 'Average' iff 0.20 <= rate < 0.30,
\* 'Poor' iff rate < 0.20; 3 opens over 5 delivered is 'Excellent'.
OpenRateLadder ==
    result.fn = "rate_open_rate"
        => LET n == result.rate.n
               d == result.rate.d
           IN  /\ result.raised = "none"
               /\ result.label \in {"Excellent", "Good", "Average", "Poor"}
               /\ result.label = "Excellent" <=> 100 * n >= 45 * d
               /\ result.label = "Good" <=> (100 * n >= 30 * d /\ 100 * n < 45 * d)
               /\ result.label = "Average" <=> (100 * n >= 20 * d /\ 100 * n < 30 * d)
               /\ result.label = "Poor" <=> 100 * n < 20 * d
               /\ (n = 3 /\ d = 5) => result.label = "Excellent"

\* C25 witness: the rate 3/5 has been classified
OpenRateThreeOfFiveWitness ==
    /\ result.fn = "rate_open_rate"
    /\ result.rate = Div(3, 5)
    /\ result.label = "Excellent"

\* the labels of a classifier from worst to best
Ladder(f) ==
    IF f \in {"rate_open_rate", "rate_ctr"} THEN <<"Poor", "Average", "Good", "Excellent">>
    ELSE IF f = "rate_ctor" THEN <<"Below target", "Good", "Excellent">>
    ELSE IF f = "rate_conversion"
    THEN <<"Below average", "Realistic/Good", "Very Good", "Excellent (niche-level)">>
    ELSE IF f = "rate_growth" THEN <<"Negative growth", "Slow", "Good", "Excellent">>
    ELSE IF f = "rate_churn" THEN <<"Poor", "Average", "Good", "Excellent">>
    ELSE <<"Audit needed", "Acceptable", "Good", "Excellent">>
Rank(f, label) == CHOOSE i \in 1..Len(Ladder(f)) : Ladder(f)[i] = label
LowerIsBetter == {"rate_churn", "rate_unsubscribe"}
IsClassifierCall(res) == res.fn \in Classifiers
FracLE(a, b) == a.n * b.d <= b.n * a.d

----------------------------------------------------------------------------
(* Properties of the dataset directories *)

InsideDataDir(d) == IsPrefix(Resolved(DATA_DIR), d) /\ Len(d) > Len(Resolved(DATA_DIR))
ListedPaths(fs) == {e.path : e \in DatasetEntries(fs)}

\* C29: a call of process_upload, whenever it is made, leaves every dataset
\* directory that exists before it in place with the same files; a failing call
\* removes nothing that existed before it, and a successful call returns a
\* directory that did not exist before it.
UploadKeepsEarlierDatasets ==
    [][(result'.fn = "process_upload" /\ now' = now)
        => /\ \A d \in DatasetDirs(files) : d \in DOMAIN files' /\ files'[d] = files[d]
           /\ ~result'.success => DOMAIN files \subseteq DOMAIN files'
           /\ result'.success => Resolved(result'.dataset_path) \notin DOMAIN files]_vars

\* C30: delete_dataset called with the path of a listed entry succeeds, the
\* entry is no longer listed and the other entries are; no call removes a
\* directory outside DATA_DIR; a call with a missing path or a path outside
\* DATA_DIR returns failure, raises nothing and removes nothing.
DeleteRemovesListedDataset ==
    [][(result'.fn = "delete_dataset" /\ now' = now)
        => /\ result'.raised = "none"
           /\ result'.path \in ListedPaths(files)
                 => /\ result'.success
                    /\ ListedPaths(files') = ListedPaths(files) \ {result'.path}
           /\ \A d \in DOMAIN files \ DOMAIN files' : InsideDataDir(d)
           /\ (~Exists(files, result'.path) \/ ~InsideDataDir(Resolved(result'.path)))
                 => ~result'.success /\ files' = files]_vars

====
